---- MODULE Spec2Model ----
(***************************************************************************)
(* State-machine model of src/src/mapillary_download.py: the resumable     *)
(* bulk downloader with its two persisted ledgers (the bounding-box queue  *)
(* data/bounding_boxes.csv and the image catalog data/images_metadata.csv) *)
(* and the image files under data/images.                                  *)
(*                                                                         *)
(* Text values (CSV cells, candidate ids) are sequences of one-character   *)
(* strings, so that str.strip(), str.lower(), float() and int() are        *)
(* computed and not assumed.                                               *)
(***************************************************************************)
EXTENDS Naturals, Integers, Sequences, FiniteSets, TLC

VARIABLES
  token,        \* TOKEN: the value of MAPILLARY_TOKEN (a text, empty when unset)
  queueExists,  \* os.path.exists(BBOX_FILE)
  queueFile,    \* rows of data/bounding_boxes.csv as persisted
  metaFile,     \* rows of data/images_metadata.csv as persisted (<<>>: absent or empty)
  fs,           \* paths that exist under data/images
  pc,           \* position of main(): "idle", "loop", "cand", "saveq", "savem"
  bbox_df,      \* main's bbox_df
  meta_df,      \* main's meta_df
  existing_ids, \* main's existing_ids
  total_new,    \* main's total_new
  idx,          \* index of the row the outer loop is at
  images,       \* candidates returned by the listing call of the current row
  k,            \* index of the candidate the inner loop is at
  new_rows,     \* main's new_rows
  runs,         \* number of runs started so far
  ev,           \* the step just taken: what it was and the network calls it issued
  cur,          \* bookkeeping of the current run
  last,         \* how the most recent finished run ended
  last2,        \* how the run before that one ended
  streamed,     \* final paths whose byte stream was consumed to the end
  nCreated,     \* per id, how many records were built for it (capped)
  http          \* one GET of SESSION under its Retry policy

disk == <<token, queueExists, queueFile, metaFile, fs>>
mem  == <<pc, bbox_df, meta_df, existing_ids, total_new, idx, images, k, new_rows>>
hist == <<runs, ev, cur, last, last2, streamed, nCreated>>
vars == <<disk, mem, hist, http>>

(***************************************************************************)
(* Bounds of the model.                                                    *)
(***************************************************************************)
MaxRuns == 3
CountCap == 2

(***************************************************************************)
(* Program constants.                                                      *)
(***************************************************************************)
DefaultLimit == 60

\* lines 27-29: Retry(total=5, connect=5, read=5)
RetryTotal == 5
RetryConnect == 5
RetryRead == 5

IMAGES_DIR == "data/images"

(***************************************************************************)
(* Text helpers.                                                           *)
(***************************************************************************)
IsSpace(c) == c = " "

RECURSIVE LStrip(_)
LStrip(s) == IF s # <<>> /\ IsSpace(Head(s)) THEN LStrip(Tail(s)) ELSE s

RECURSIVE RStrip(_)
RStrip(s) ==
  IF s # <<>> /\ IsSpace(s[Len(s)]) THEN RStrip(SubSeq(s, 1, Len(s) - 1)) ELSE s

\* str.strip()
Strip(s) == RStrip(LStrip(s))

LowerChar(c) ==
  CASE c = "Y" -> "y"
    [] c = "E" -> "e"
    [] c = "S" -> "s"
    [] c = "N" -> "n"
    [] c = "O" -> "o"
    [] OTHER -> c

\* str.lower()
Lower(s) == [i \in 1..Len(s) |-> LowerChar(s[i])]

Digits == {"0", "1", "2", "3", "4", "5", "6", "7", "8", "9"}

DigitVal(c) ==
  CASE c = "0" -> 0 [] c = "1" -> 1 [] c = "2" -> 2 [] c = "3" -> 3 [] c = "4" -> 4
    [] c = "5" -> 5 [] c = "6" -> 6 [] c = "7" -> 7 [] c = "8" -> 8 [] c = "9" -> 9

RECURSIVE DecVal(_)
DecVal(s) == IF s = <<>> THEN 0 ELSE 10 * DecVal(SubSeq(s, 1, Len(s) - 1)) + DigitVal(s[Len(s)])

IsDecimal(s) == s # <<>> /\ \A i \in 1..Len(s) : s[i] \in Digits

\* A signed decimal numeral: the texts on which float() and int() succeed here.
ParseNum(s) ==
  LET t == Strip(s)
  IN  IF IsDecimal(t) THEN [ok |-> TRUE, val |-> DecVal(t)]
      ELSE IF t # <<>> /\ Head(t) = "-" /\ IsDecimal(Tail(t))
           THEN [ok |-> TRUE, val |-> 0 - DecVal(Tail(t))]
           ELSE [ok |-> FALSE, val |-> 0]

\* the "yes" that line 206 writes and line 129 compares with
YES == <<"y", "e", "s">>

(***************************************************************************)
(* The two CSV ledgers.                                                    *)
(***************************************************************************)
Row(loc, lon0, lat0, lon1, lat1, lim, flag) ==
  [location_name |-> loc, min_lon |-> lon0, min_lat |-> lat0,
   max_lon |-> lon1, max_lat |-> lat1, limit |-> lim, downloaded |-> flag]

\* lines 117-121: read_csv(dtype=str).fillna("") and the strip of every column
StripRow(r) ==
  [location_name |-> Strip(r.location_name),
   min_lon |-> Strip(r.min_lon), min_lat |-> Strip(r.min_lat),
   max_lon |-> Strip(r.max_lon), max_lat |-> Strip(r.max_lat),
   limit |-> Strip(r.limit), downloaded |-> Strip(r.downloaded)]

\* mutant: the downloaded column is not read
LoadQueueNoFlag(file) ==
  [i \in 1..Len(file) |-> [StripRow(file[i]) EXCEPT !.downloaded = << >>]]

LoadQueue(file) == [i \in 1..Len(file) |-> StripRow(file[i])]

\* line 129
IsDownloaded(row) == Lower(row.downloaded) = YES

\* the completed flag of a persisted row, as a load of the file reads it
PersistedDone(raw) == IsDownloaded(StripRow(raw))

\* lines 133-136
RowLimit(row) ==
  LET txt == IF row.limit = <<>> THEN <<"6", "0">> ELSE row.limit
      n   == ParseNum(txt)
  IN  IF n.ok THEN n.val ELSE DefaultLimit

\* mutant: a bound that float() rejects reads as 0
RowBoundsLenient(row) ==
  [ok |-> TRUE,
   box |-> <<ParseNum(row.min_lon).val, ParseNum(row.min_lat).val,
             ParseNum(row.max_lon).val, ParseNum(row.max_lat).val>>]

\* lines 138-143: the four float() conversions
RowBounds(row) ==
  LET a == ParseNum(row.min_lon)  b == ParseNum(row.min_lat)
      c == ParseNum(row.max_lon)  d == ParseNum(row.max_lat)
  IN  [ok |-> a.ok /\ b.ok /\ c.ok /\ d.ok, box |-> <<a.val, b.val, c.val, d.val>>]

\* A cell of meta_df: a value built in this run (a float) or a text read back
\* from the CSV (dtype=str).
RECURSIVE DecText(_)
DecText(n) ==
  LET d == CHOOSE c \in Digits : DigitVal(c) = n % 10
  IN  IF n < 10 THEN <<d>> ELSE Append(DecText(n \div 10), d)

Fresh(n) == [t |-> "float", v |-> DecText(n)]
Text(v)  == [t |-> "str", v |-> v]

\* the text to_csv writes for a cell
CellText(c) == IF c.t = "float" THEN c.v \o <<".", "0">> ELSE c.v

\* line 211, to_csv: every cell becomes its text
CsvRecord(r) ==
  [id |-> r.id, location_name |-> r.location_name,
   longitude |-> CellText(r.longitude), latitude |-> CellText(r.latitude),
   file_path |-> r.file_path, image_url |-> r.image_url]

ToCsv(df) == [i \in 1..Len(df) |-> CsvRecord(df[i])]

\* lines 85-88, load_meta_df: read_csv(dtype=str); an absent or empty file
\* gives the empty frame
LoadRecord(r) ==
  [id |-> r.id, location_name |-> r.location_name,
   longitude |-> Text(r.longitude), latitude |-> Text(r.latitude),
   file_path |-> r.file_path, image_url |-> r.image_url]

\* mutant: the catalog file is taken for absent
load_meta_df_absent(file) == << >>

load_meta_df(file) == [i \in 1..Len(file) |-> LoadRecord(file[i])]

\* line 124
IdsOf(df) == {df[i].id : i \in 1..Len(df)}

(***************************************************************************)
(* Image files.                                                            *)
(***************************************************************************)
\* line 177
ImgPath(id) == [dir |-> IMAGES_DIR, name |-> id, ext |-> ".jpg"]

\* line 76
PartPath(p) == [p EXCEPT !.ext = ".jpg.part"]

\* What one streamed GET of download_image can do: fail before anything is
\* written (connection error, raise_for_status), fail while streaming, or
\* deliver the whole stream.
StreamOutcomes == {"refused", "cut", "whole"}

\* mutant: the stream is written straight to the final path
download_image_in_place(files, dest, outcome) ==
  CASE outcome = "refused" -> [fs |-> files, ok |-> FALSE]
    [] outcome = "cut"     -> [fs |-> files \cup {dest}, ok |-> FALSE]
    [] outcome = "whole"   -> [fs |-> files \cup {dest}, ok |-> TRUE]

\* mutant: the rename to the final path is missing
download_image_no_rename(files, dest, outcome) ==
  CASE outcome = "refused" -> [fs |-> files, ok |-> FALSE]
    [] outcome = "cut"     -> [fs |-> files \cup {PartPath(dest)}, ok |-> FALSE]
    [] outcome = "whole"   -> [fs |-> files \cup {PartPath(dest)}, ok |-> TRUE]

\* lines 74-83, download_image
download_image(files, dest, outcome) ==
  CASE outcome = "refused" -> [fs |-> files, ok |-> FALSE]
    [] outcome = "cut"     -> [fs |-> files \cup {PartPath(dest)}, ok |-> FALSE]
    [] outcome = "whole"   ->
         [fs |-> ((files \cup {PartPath(dest)}) \ {PartPath(dest)}) \cup {dest},
          ok |-> TRUE]

(***************************************************************************)
(* The remote API.                                                         *)
(***************************************************************************)
NoGeom == [present |-> FALSE, coordinates |-> <<>>]
Geom(cs) == [present |-> TRUE, coordinates |-> cs]

Cand(id, cg, g) == [id |-> id, computed_geometry |-> cg, geometry |-> g]

\* The images the remote holds for a bounding box (the data set is fixed).
RemoteImages(box) ==
  CASE box = <<0, 0, 2, 2>> ->
         << Cand(<<" ", "1">>, Geom(<<5, 7>>), NoGeom),
            Cand(<<"2">>, NoGeom, Geom(<<5>>)),
            Cand(<<"1">>, NoGeom, Geom(<<6, 8>>)) >>
    [] box = <<1, 1, 3, 3>> ->
         << Cand(<<"1">>, NoGeom, Geom(<<6, 8>>)),
            Cand(<<" ">>, Geom(<<5, 7>>), NoGeom),
            Cand(<<"2">>, Geom(<<10, 3>>), NoGeom) >>
    [] OTHER -> << >>

Min(a, b) == IF a < b THEN a ELSE b

\* lines 45-57, fetch_images_for_bbox: the call either raises a
\* RequestException (retries exhausted, non-retryable status) or returns up
\* to `limit` images of the box
fetch_images_for_bbox(box, limit, reply) ==
  IF reply = "error" THEN [ok |-> FALSE, data |-> << >>]
  ELSE LET all == RemoteImages(box)
       IN  [ok |-> TRUE,
            data |-> IF limit < 0 THEN << >> ELSE SubSeq(all, 1, Min(limit, Len(all)))]

\* What one GET of fetch_thumb_url can give: a URL, a reply without one
\* (status other than 200, or an empty field), or a RequestException.
ThumbReplies == {"url", "none", "error"}

\* lines 59-72, fetch_thumb_url: thumb_2048_url first, then thumb_1024_url
fetch_thumb_url(r2048, r1024) ==
  IF r2048 = "url" THEN [url |-> "thumb_2048_url", calls |-> 1]
  ELSE IF r1024 = "url" THEN [url |-> "thumb_1024_url", calls |-> 2]
  ELSE [url |-> "", calls |-> 2]

\* lines 90-98, safe_coords
safe_coords(img) ==
  LET geom == IF img.computed_geometry.present THEN img.computed_geometry
              ELSE img.geometry
  IN  IF ~geom.present THEN [ok |-> FALSE, lon |-> 0, lat |-> 0]
      ELSE IF Len(geom.coordinates) < 2 THEN [ok |-> FALSE, lon |-> 0, lat |-> 0]
      ELSE [ok |-> TRUE, lon |-> geom.coordinates[1], lat |-> geom.coordinates[2]]

\* line 159
CandId(img) == Strip(img.id)

(***************************************************************************)
(* The transport: one GET of SESSION under the Retry policy of             *)
(* build_session (lines 24-38), as urllib3's urlopen applies it.           *)
(***************************************************************************)
\* line 31, status_forcelist
StatusForcelist == {429, 500, 502, 503, 504}

\* urllib3's Retry.RETRY_AFTER_STATUS_CODES (respect_retry_after_header is
\* left at its default, True)
RetryAfterStatusCodes == {413, 429, 503}

\* What one attempt can meet: a connection-level failure while connecting or
\* while reading, or a response with a status and perhaps a Retry-After header.
Failure(kind) == [kind |-> kind, status |-> 0, retry_after |-> FALSE]
Response(st, ra) == [kind |-> "status", status |-> st, retry_after |-> ra]

Replies ==
  {Failure("connect"), Failure("read")}
    \cup {Response(st, ra) : st \in {200, 404, 413, 429, 500, 503}, ra \in BOOLEAN}

\* lines 26-34: the Retry object a request starts with
NewRetry == [total |-> RetryTotal, connect |-> RetryConnect, read |-> RetryRead]

\* Retry.is_retry for a GET (line 32 allows the method)
IsRetry(rt, reply) ==
  \/ reply.status \in StatusForcelist
  \/ rt.total # 0 /\ reply.retry_after /\ reply.status \in RetryAfterStatusCodes

\* Retry.increment: total counts every retry, connect and read their own kind
Increment(rt, reply) ==
  [total   |-> rt.total - 1,
   connect |-> IF reply.kind = "connect" THEN rt.connect - 1 ELSE rt.connect,
   read    |-> IF reply.kind = "read" THEN rt.read - 1 ELSE rt.read]

\* mutant: the budget is spent when a counter reaches zero
IsExhaustedAtZero(rt) == rt.total <= 0 \/ rt.connect <= 0 \/ rt.read <= 0

\* Retry.is_exhausted
IsExhausted(rt) == rt.total < 0 \/ rt.connect < 0 \/ rt.read < 0

HttpIdle ==
  [phase |-> "idle", retry |-> NewRetry, attempts |-> 0,
   reply |-> Failure("none"), surfaced |-> "none"]

(***************************************************************************)
(* Initial states: the files a run can find.                               *)
(***************************************************************************)
Box1 == << <<"0">>, <<"0">>, <<"2">>, <<"2">> >>
Box2 == << <<"1">>, <<"1">>, <<"3">>, <<"3">> >>
BoxInverted == << <<"2">>, <<"0">>, <<"0">>, <<"2">> >>
BoxMalformed == << <<"x">>, <<"0">>, <<"2">>, <<"2">> >>

Task(loc, b, lim, flag) == Row(loc, b[1], b[2], b[3], b[4], lim, flag)

QueueFiles ==
  { << Task(<<"A">>, Box1, << >>, << >>),
       Task(<<"B">>, Box2, <<"x">>, <<"n", "o">>) >>,
    << Task(<<"A", " ">>, Box1, <<"2">>, <<" ", "Y", "e", "s">>),
       Task(<<"C">>, BoxMalformed, << >>, << >>),
       Task(<<"B">>, Box2, <<" ", "2">>, << >>) >>,
    << Task(<<"D">>, BoxInverted, << >>, << >>),
       Task(<<"A">>, Box1, <<"6", "0">>, <<"n", "o", " ">>) >> }

Tokens == { << >>, <<"t", "o", "k">> }

Ids == { <<"1">>, <<"2">> }

NoEvent == [op |-> "none", task |-> 0, id |-> << >>, calls |-> {}]
Event(op, t, id, calls) == [op |-> op, task |-> t, id |-> id, calls |-> calls]

\* Rows listed, rows whose listing failed, rows processed to line 206, rows
\* with a dropped candidate, ids whose bytes were requested: all of this run.
NoRun == [listed |-> {}, listFail |-> {}, done |-> {}, dropped |-> {}, tried |-> {}]
NoLast == [kind |-> "none", pc |-> "idle", queue |-> << >>, listFail |-> {},
           done |-> {}, added |-> 0, metaWritten |-> FALSE]

\* The state before the first run, with the image files found on disk.
InitWith(files) ==
  /\ token \in Tokens
  /\ queueExists \in BOOLEAN
  /\ queueFile \in (IF queueExists THEN QueueFiles ELSE { << >> })
  /\ metaFile = << >>
  /\ fs = files
  /\ pc = "idle"
  /\ bbox_df = << >>
  /\ meta_df = << >>
  /\ existing_ids = {}
  /\ total_new = 0
  /\ idx = 0
  /\ images = << >>
  /\ k = 0
  /\ new_rows = << >>
  /\ runs = 0
  /\ ev = NoEvent
  /\ cur = NoRun
  /\ last = NoLast
  /\ last2 = [kind |-> "none", queue |-> << >>, listFail |-> {}, added |-> 0]
  /\ streamed = files
  /\ nCreated = [i \in Ids |-> 0]
  /\ http = HttpIdle

Init == InitWith({})

\* the process is gone: nothing of main's memory is left
MemCleared ==
  /\ pc' = "idle"
  /\ bbox_df' = << >>
  /\ meta_df' = << >>
  /\ existing_ids' = {}
  /\ total_new' = 0
  /\ idx' = 0
  /\ images' = << >>
  /\ k' = 0
  /\ new_rows' = << >>

Finished(kind, written) ==
  /\ last' = [kind |-> kind, pc |-> pc, queue |-> queueFile,
              listFail |-> cur.listFail, done |-> cur.done,
              added |-> total_new, metaWritten |-> written]
  /\ last2' = [kind |-> last.kind, queue |-> last.queue,
               listFail |-> last.listFail, added |-> last.added]
  /\ cur' = NoRun

(***************************************************************************)
(* main(), lines 109-215.                                                  *)
(***************************************************************************)
\* mutant: only the queue file is looked for
ConfigOkQueueOnly(tok, exists) == exists

\* lines 110 and 113: there is a token and the queue file exists
ConfigOk(tok, exists) == tok # << >> /\ exists

\* lines 110-115: no token, or no queue file: return
ConfigError ==
  /\ pc = "idle"
  /\ runs < MaxRuns
  /\ ~ConfigOk(token, queueExists)
  /\ runs' = runs + 1
  /\ ev' = Event("config_error", 0, << >>, {})
  /\ Finished("config", FALSE)
  /\ UNCHANGED <<http, disk, mem, streamed, nCreated>>

\* lines 117-126: load both ledgers
LoadLedgers ==
  /\ pc = "idle"
  /\ ConfigOk(token, queueExists)
  /\ bbox_df' = LoadQueue(queueFile)
  /\ meta_df' = load_meta_df(metaFile)
  /\ existing_ids' = IF Len(meta_df') = 0 THEN {} ELSE IdsOf(meta_df')
  /\ total_new' = 0
  /\ idx' = 1
  /\ pc' = "loop"
  /\ ev' = Event("start", 0, << >>, {})
  /\ cur' = NoRun
  /\ UNCHANGED <<http, disk, images, k, new_rows, last, last2, streamed, nCreated>>

\* main() is started (one of the runs that are counted)
StartRun ==
  /\ runs < MaxRuns
  /\ runs' = runs + 1
  /\ LoadLedgers

InLoop == pc = "loop" /\ idx <= Len(bbox_df)

NextRow ==
  /\ idx' = idx + 1
  /\ UNCHANGED <<pc, bbox_df, meta_df, existing_ids, total_new, images, k, new_rows>>

\* lines 129-130: the row is already downloaded
SkipDownloaded ==
  /\ InLoop
  /\ IsDownloaded(bbox_df[idx])
  /\ NextRow
  /\ ev' = Event("skip_downloaded", idx, << >>, {})
  /\ UNCHANGED <<http, disk, runs, cur, last, last2, streamed, nCreated>>

\* lines 138-143: a bound that float() rejects
SkipInvalid ==
  /\ InLoop
  /\ ~IsDownloaded(bbox_df[idx])
  /\ ~RowBounds(bbox_df[idx]).ok
  /\ NextRow
  /\ ev' = Event("skip_invalid", idx, << >>, {})
  /\ UNCHANGED <<http, disk, runs, cur, last, last2, streamed, nCreated>>

Listable == InLoop /\ ~IsDownloaded(bbox_df[idx]) /\ RowBounds(bbox_df[idx]).ok

Listing(reply) ==
  fetch_images_for_bbox(RowBounds(bbox_df[idx]).box, RowLimit(bbox_df[idx]), reply)

\* mutant: the row is flipped although the listing failed
AfterApiErrorFlip(df, i) == [df EXCEPT ![i].downloaded = YES]

\* lines 150-153: the row is left as it is ("don't flip to yes")
AfterApiError(df, i) == df

\* lines 148-153: the listing call raises
ListFail ==
  /\ Listable
  /\ ~Listing("error").ok
  /\ bbox_df' = AfterApiError(bbox_df, idx)
  /\ idx' = idx + 1
  /\ UNCHANGED <<pc, meta_df, existing_ids, total_new, images, k, new_rows>>
  /\ ev' = Event("list_fail", idx, << >>, {"list"})
  /\ cur' = [cur EXCEPT !.listed = @ \cup {idx}, !.listFail = @ \cup {idx}]
  /\ UNCHANGED <<http, disk, runs, last, last2, streamed, nCreated>>

\* lines 148-157: the listing call returns the candidates
ListOk ==
  /\ Listable
  /\ Listing("data").ok
  /\ images' = Listing("data").data
  /\ k' = 1
  /\ new_rows' = << >>
  /\ pc' = "cand"
  /\ ev' = Event("list_ok", idx, << >>, {"list"})
  /\ cur' = [cur EXCEPT !.listed = @ \cup {idx}]
  /\ UNCHANGED <<http, disk, bbox_df, meta_df, existing_ids, total_new, idx,
                 runs, last, last2, streamed, nCreated>>

InCand == pc = "cand" /\ k <= Len(images)

\* mutant: only the blank id is dropped
KnownBlankOnly(ids, id) == id = << >>

\* line 160: nothing to do for a blank id or an id of the id set
Known(ids, id) == id = << >> \/ id \in ids

\* mutant: the id is not added to the id set
MarkSeenForgotten(ids, id) == ids

\* line 198
MarkSeen(ids, id) == ids \cup {id}

\* lines 189-197
NewRecord(id, loc, c, url) ==
  [id |-> id, location_name |-> loc, longitude |-> Fresh(c.lon),
   latitude |-> Fresh(c.lat), file_path |-> ImgPath(id), image_url |-> url]

Bump(f, id) == [f EXCEPT ![id] = IF @ < CountCap THEN @ + 1 ELSE @]

NextCand ==
  /\ k' = k + 1
  /\ UNCHANGED <<pc, bbox_df, meta_df, total_new, idx, images>>

\* the candidate is dropped: continue (lines 161, 167, 175, 187)
Dropped ==
  /\ NextCand
  /\ UNCHANGED <<existing_ids, new_rows, nCreated>>

\* lines 189-198: the record is appended and the id marked
Recorded(id, url) ==
  /\ NextCand
  /\ new_rows' = Append(new_rows, NewRecord(id, bbox_df[idx].location_name,
                                             safe_coords(images[k]), url))
  /\ existing_ids' = MarkSeen(existing_ids, id)
  /\ nCreated' = Bump(nCreated, id)

\* lines 159-161
CandKnown ==
  /\ InCand
  /\ Known(existing_ids, CandId(images[k]))
  /\ Dropped
  /\ ev' = Event("known", idx, CandId(images[k]), {})
  /\ UNCHANGED <<http, disk, runs, cur, last, last2, streamed>>

\* lines 164-167
CandNoCoords ==
  /\ InCand
  /\ ~Known(existing_ids, CandId(images[k]))
  /\ ~safe_coords(images[k]).ok
  /\ Dropped
  /\ ev' = Event("no_coords", idx, CandId(images[k]), {})
  /\ cur' = [cur EXCEPT !.dropped = @ \cup {idx}]
  /\ UNCHANGED <<http, disk, runs, last, last2, streamed>>

Resolvable ==
  /\ InCand
  /\ ~Known(existing_ids, CandId(images[k]))
  /\ safe_coords(images[k]).ok

\* mutant: the partial file is looked for instead of the final one
FileExistsPart(files, p) == PartPath(p) \in files

\* mutant: the existing file is not looked for
FileExistsNever(files, p) == FALSE

\* line 178, os.path.exists
FileExists(files, p) == p \in files

\* lines 172-175
CandNoThumb ==
  /\ Resolvable
  /\ \E r1, r2 \in ThumbReplies : fetch_thumb_url(r1, r2).url = ""
  /\ Dropped
  /\ ev' = Event("no_thumb", idx, CandId(images[k]), {"thumb"})
  /\ cur' = [cur EXCEPT !.dropped = @ \cup {idx}]
  /\ UNCHANGED <<http, disk, runs, last, last2, streamed>>

\* lines 177-178 and 189-198: the file is there already
CandHaveFile ==
  /\ Resolvable
  /\ FileExists(fs, ImgPath(CandId(images[k])))
  /\ \E r1, r2 \in ThumbReplies :
       /\ fetch_thumb_url(r1, r2).url # ""
       /\ Recorded(CandId(images[k]), fetch_thumb_url(r1, r2).url)
  /\ ev' = Event("have_file", idx, CandId(images[k]), {"thumb"})
  /\ UNCHANGED <<http, disk, runs, cur, last, last2, streamed>>

\* lines 178-187: download_image raises a RequestException
CandDownloadFail ==
  /\ Resolvable
  /\ ~FileExists(fs, ImgPath(CandId(images[k])))
  /\ \E r1, r2 \in ThumbReplies : fetch_thumb_url(r1, r2).url # ""
  /\ \E o \in StreamOutcomes :
       LET d == download_image(fs, ImgPath(CandId(images[k])), o)
       IN  /\ ~d.ok
           /\ fs' = d.fs
  /\ Dropped
  /\ ev' = Event("download_fail", idx, CandId(images[k]), {"thumb", "bytes"})
  /\ cur' = [cur EXCEPT !.tried = @ \cup {CandId(images[k])},
                        !.dropped = @ \cup {idx}]
  /\ UNCHANGED <<http, token, queueExists, queueFile, metaFile,
                 runs, last, last2, streamed>>

\* lines 178-183 and 189-198: the image is downloaded and recorded
CandDownloadOk ==
  /\ Resolvable
  /\ ~FileExists(fs, ImgPath(CandId(images[k])))
  /\ \E o \in StreamOutcomes :
       LET d == download_image(fs, ImgPath(CandId(images[k])), o)
       IN  /\ d.ok
           /\ fs' = d.fs
           /\ streamed' = IF o = "whole" THEN streamed \cup {ImgPath(CandId(images[k]))}
                          ELSE streamed
  /\ \E r1, r2 \in ThumbReplies :
       /\ fetch_thumb_url(r1, r2).url # ""
       /\ Recorded(CandId(images[k]), fetch_thumb_url(r1, r2).url)
  /\ ev' = Event("download_ok", idx, CandId(images[k]), {"thumb", "bytes"})
  /\ cur' = [cur EXCEPT !.tried = @ \cup {CandId(images[k])}]
  /\ UNCHANGED <<http, token, queueExists, queueFile, metaFile,
                 runs, last, last2>>

\* mutant: the flag is never set
MarkDownloadedNever(df, i) == df

\* mutant: the flag is set only when the row produced a record
MarkDownloadedIfNew(df, i) ==
  IF new_rows # << >> THEN [df EXCEPT ![i].downloaded = YES] ELSE df

\* line 206
MarkDownloaded(df, i) == [df EXCEPT ![i].downloaded = YES]

\* mutant: the queue file is written as soon as a row is done
TaskEndSaving ==
  /\ pc = "cand"
  /\ k > Len(images)
  /\ meta_df' = IF new_rows # << >> THEN meta_df \o new_rows ELSE meta_df
  /\ total_new' = total_new + Len(new_rows)
  /\ bbox_df' = MarkDownloaded(bbox_df, idx)
  /\ queueFile' = bbox_df'
  /\ idx' = idx + 1
  /\ pc' = "loop"
  /\ images' = << >>
  /\ k' = 0
  /\ new_rows' = << >>
  /\ cur' = [cur EXCEPT !.done = @ \cup {idx}]
  /\ ev' = Event("task_end", idx, << >>, {})
  /\ UNCHANGED <<http, token, queueExists, metaFile, fs, existing_ids,
                 runs, last, last2, streamed, nCreated>>

\* lines 200-206: the candidates of the row are exhausted
TaskEnd ==
  /\ pc = "cand"
  /\ k > Len(images)
  /\ meta_df' = IF new_rows # << >> THEN meta_df \o new_rows ELSE meta_df
  /\ total_new' = total_new + Len(new_rows)
  /\ bbox_df' = MarkDownloaded(bbox_df, idx)
  /\ idx' = idx + 1
  /\ pc' = "loop"
  /\ images' = << >>
  /\ k' = 0
  /\ new_rows' = << >>
  /\ cur' = [cur EXCEPT !.done = @ \cup {idx}]
  /\ ev' = Event("task_end", idx, << >>, {})
  /\ UNCHANGED <<http, disk, existing_ids, runs, last, last2, streamed, nCreated>>

\* mutant: only the rows still to do are written back
WriteQueuePending(df) == SelectSeq(df, LAMBDA r : ~IsDownloaded(r))

\* mutant: the flags set at line 206 do not reach the file
WriteQueueUnflagged(df) ==
  [i \in 1..Len(df) |->
     IF i <= Len(queueFile) THEN [df[i] EXCEPT !.downloaded = Strip(queueFile[i].downloaded)]
     ELSE df[i]]

\* line 209, to_csv: the whole frame, every cell a text already
WriteQueue(df) == df

\* line 209
SaveQueue ==
  /\ pc = "loop"
  /\ idx > Len(bbox_df)
  /\ queueFile' = WriteQueue(bbox_df)
  /\ pc' = "savem"
  /\ ev' = Event("save_queue", 0, << >>, {})
  /\ UNCHANGED <<http, token, queueExists, metaFile, fs, bbox_df, meta_df, existing_ids,
                 total_new, idx, images, k, new_rows,
                 runs, cur, last, last2, streamed, nCreated>>

\* lines 210-211
SaveMeta ==
  /\ pc = "savem"
  /\ total_new > 0
  /\ metaFile' = ToCsv(meta_df)
  /\ MemCleared
  /\ Finished("done", TRUE)
  /\ ev' = Event("save_meta", 0, << >>, {})
  /\ UNCHANGED <<http, token, queueExists, queueFile, fs, runs, streamed, nCreated>>

\* line 210: nothing new, the catalog file is left alone
SkipSaveMeta ==
  /\ pc = "savem"
  /\ total_new = 0
  /\ MemCleared
  /\ Finished("done", FALSE)
  /\ ev' = Event("end", 0, << >>, {})
  /\ UNCHANGED <<http, disk, runs, streamed, nCreated>>

\* The process is terminated at any point of a run (there is no handler:
\* an unhandled exception or a kill ends main where it stands).
Crash ==
  /\ pc # "idle"
  /\ MemCleared
  /\ Finished("crash", FALSE)
  /\ ev' = Event("crash", 0, << >>, {})
  /\ UNCHANGED <<http, disk, runs, streamed, nCreated>>

Next ==
  \/ ConfigError
  \/ StartRun
  \/ SkipDownloaded
  \/ SkipInvalid
  \/ ListFail
  \/ ListOk
  \/ CandKnown
  \/ CandNoCoords
  \/ CandNoThumb
  \/ CandHaveFile
  \/ CandDownloadFail
  \/ CandDownloadOk
  \/ TaskEnd
  \/ SaveQueue
  \/ SaveMeta
  \/ SkipSaveMeta
  \/ Crash

Spec == Init /\ [][Next]_vars

(***************************************************************************)
(* The script run again and again, each run to its end: runs are not       *)
(* counted and the process is never terminated.  A run takes its next      *)
(* step as long as it has one (a single thread, every call with a          *)
(* timeout), and a finished run is followed by another; whether a listing  *)
(* call fails or returns is left open.                                     *)
(***************************************************************************)
\* The first of these runs may find an image that a run before them, ended
\* before its saves, had finished.
LiveInit ==
  /\ \E files \in {{}, {ImgPath(<<"1">>)}} : InitWith(files)
  /\ ConfigOk(token, queueExists)

\* main() is started once more
RunAgain ==
  /\ runs' = runs
  /\ LoadLedgers

LiveNext ==
  \/ RunAgain
  \/ SkipDownloaded
  \/ SkipInvalid
  \/ ListFail
  \/ ListOk
  \/ CandKnown
  \/ CandNoCoords
  \/ CandNoThumb
  \/ CandHaveFile
  \/ CandDownloadFail
  \/ CandDownloadOk
  \/ TaskEnd
  \/ SaveQueue
  \/ SaveMeta
  \/ SkipSaveMeta

LiveSpec == LiveInit /\ [][LiveNext]_vars /\ WF_vars(LiveNext)

(***************************************************************************)
(* One GET under the Retry policy, on its own.                             *)
(***************************************************************************)
RetryInit ==
  /\ Init
  /\ token = << >>
  /\ ~queueExists

\* SESSION.get: the first attempt is about to be made
HttpGet ==
  /\ http.phase # "sending"
  /\ http' = [HttpIdle EXCEPT !.phase = "sending"]
  /\ UNCHANGED <<disk, mem, hist>>

Attempt(reply) ==
  [http EXCEPT !.attempts = @ + 1, !.reply = reply]

\* an attempt gets a response that is not retried: it is returned
HttpReturn ==
  /\ http.phase = "sending"
  /\ \E reply \in Replies :
       /\ reply.kind = "status"
       /\ ~IsRetry(http.retry, reply)
       /\ http' = [Attempt(reply) EXCEPT !.phase = "done", !.surfaced = "response"]
  /\ UNCHANGED <<disk, mem, hist>>

\* an attempt fails, or gets a status to retry, and the budget allows
\* another attempt (after the backoff sleep)
HttpRetry ==
  /\ http.phase = "sending"
  /\ \E reply \in Replies :
       /\ reply.kind # "status" \/ IsRetry(http.retry, reply)
       /\ ~IsExhausted(Increment(http.retry, reply))
       /\ http' = [Attempt(reply) EXCEPT !.retry = Increment(http.retry, reply)]
  /\ UNCHANGED <<disk, mem, hist>>

\* the budget is spent: a failure raises (MaxRetryError), a status is
\* returned as it is (line 33, raise_on_status=False)
HttpExhausted ==
  /\ http.phase = "sending"
  /\ \E reply \in Replies :
       /\ reply.kind # "status" \/ IsRetry(http.retry, reply)
       /\ IsExhausted(Increment(http.retry, reply))
       /\ http' = [Attempt(reply) EXCEPT
                     !.retry = Increment(http.retry, reply),
                     !.phase = "done",
                     !.surfaced = IF reply.kind = "status" THEN "exhausted_status"
                                  ELSE "exhausted_error"]
  /\ UNCHANGED <<disk, mem, hist>>

RetryNext ==
  \/ HttpGet
  \/ HttpReturn
  \/ HttpRetry
  \/ HttpExhausted

RetrySpec == RetryInit /\ [][RetryNext]_vars

(***************************************************************************)
(* Properties.                                                             *)
(***************************************************************************)
ListOps == {"list_ok", "list_fail"}

\* a persisted row whose bounds are numbers with min < max
WellOrdered(raw) ==
  LET b == RowBounds(StripRow(raw))
  IN  b.ok /\ b.box[1] < b.box[3] /\ b.box[2] < b.box[4]

\* C1. Resumability: when a run was terminated at a row boundary (after the
\* rows before it were processed to line 206 and before the next row
\* started), the next run issues no listing call for a row that the
\* terminated run had processed to completion.
C1_Resumable ==
  (last.kind = "crash" /\ last.pc = "loop" /\ ev.op \in ListOps
     /\ WellOrdered(queueFile[ev.task]))
    => ev.task \notin last.done

\* C2. Monotonic completion: a row persisted as downloaded is persisted as
\* downloaded by every later write of the queue file; rows are never removed.
C2_Monotonic ==
  [][\A i \in 1..Len(queueFile) :
       PersistedDone(queueFile[i])
         => i <= Len(queueFile') /\ PersistedDone(queueFile'[i])]_vars

\* A later run rewrites the queue while it holds a row the run before it
\* had flipped to downloaded.
C2_Witness ==
  /\ ev.op = "save_queue"
  /\ last.kind = "done"
  /\ \E i \in last.done : PersistedDone(queueFile[i])
  /\ \E i \in 1..Len(queueFile) : ~PersistedDone(queueFile[i])

NoDupIds(df) == \A i, j \in 1..Len(df) : df[i].id = df[j].id => i = j

RecordOps == {"have_file", "download_ok"}

\* C3 as stated: for any id at most one record is ever created.
C3_CreatedOnce == \A id \in Ids : nCreated[id] <= 1

\* C3, amended. No two records of the in-memory catalog (meta_df with the
\* rows of the current task) or of the persisted catalog share an id, and a
\* record is created only for an id the persisted catalog does not hold.
C3_UniqueIds ==
  /\ NoDupIds(meta_df \o new_rows)
  /\ NoDupIds(metaFile)
  /\ ev.op \in RecordOps => ev.id \notin IdsOf(metaFile)

\* Two rows listed the same image, after a run that ended before the catalog
\* was saved, and the catalog holds it once.
C3_Witness ==
  /\ last2.kind = "crash"
  /\ Len(metaFile) = 2
  /\ \E id \in Ids : nCreated[id] = 2

\* C4 as stated: within a run the bytes of an id are requested at most once.
C4_FetchedOnce ==
  []["bytes" \in ev'.calls => ev'.id \notin cur.tried]_vars

\* C4, amended. A byte-fetch is issued only for an id that is not in the id
\* set and whose file is absent; so once a record exists for an id (its bytes
\* were fetched to the end, or its file was there) no later candidate with
\* that id is fetched, and the bytes of an id are fetched whole at most once.
C4_NoFetchAfterRecord ==
  []["bytes" \in ev'.calls
       => /\ ev'.id \notin existing_ids
          /\ ev'.id \notin IdsOf(meta_df \o new_rows)
          /\ ImgPath(ev'.id) \notin fs
          /\ ImgPath(ev'.id) \notin streamed]_vars

\* A second candidate with an id whose bytes were fetched in this run is
\* dropped without a network call.
C4_Witness ==
  /\ ev.op = "known"
  /\ ev.calls = {}
  /\ ev.id \in cur.tried
  /\ ev.id \in IdsOf(new_rows) \cup IdsOf(meta_df)

\* C5. Atomicity: a file is at a final image path only if its byte stream
\* was consumed to the end; after a failed byte-fetch there is no file at
\* the final path and the catalog in memory has no record of the candidate.
C5_Atomic ==
  /\ \A id \in Ids : ImgPath(id) \in fs => ImgPath(id) \in streamed
  /\ ev.op = "download_fail"
       => /\ ImgPath(ev.id) \notin fs
          /\ ev.id \notin IdsOf(meta_df \o new_rows)
          /\ ev.id \notin existing_ids

\* A byte-fetch failed while streaming and left the .part file.
C5_Witness ==
  /\ ev.op = "download_fail"
  /\ PartPath(ImgPath(ev.id)) \in fs
  /\ ImgPath(ev.id) \notin fs

BothDone == last.kind = "done" /\ last2.kind = "done"

C7_RecordHasFile ==
  /\ \A i \in 1..Len(metaFile) : metaFile[i].file_path \in fs
  /\ \A i \in 1..Len(meta_df) : meta_df[i].file_path \in fs
  /\ \A i \in 1..Len(new_rows) : new_rows[i].file_path \in fs

\* The catalog was written with a record whose file was downloaded, and one
\* whose file was already there.
C7_Witness ==
  /\ ev.op = "save_meta"
  /\ Len(metaFile) = 2
  /\ last2.kind = "crash"

\* C8. Listing failure: the step leaves the row's flag false and the catalog
\* as it was and moves on to the next row; the queue a run saves keeps the
\* flag false; and the run after a complete run lists the row again.
C8_ListingFailure ==
  [][/\ ev'.op = "list_fail"
          => /\ ~IsDownloaded(bbox_df'[ev'.task])
             /\ bbox_df' = bbox_df
             /\ meta_df' = meta_df /\ new_rows' = new_rows
             /\ total_new' = total_new /\ existing_ids' = existing_ids
             /\ pc' = "loop" /\ idx' = idx + 1
     /\ pc' = "savem"
          => \A t \in cur'.listFail : ~PersistedDone(queueFile'[t])
     /\ (last'.kind = "done" /\ pc' # "idle")
          => \A t \in last'.listFail : t < idx' => t \in cur'.listed]_vars

\* A row whose listing failed in a complete run is listed by the next run.
C8_Witness ==
  /\ last.kind = "done"
  /\ ev.op = "list_ok"
  /\ ev.task \in last.listFail
  /\ ev.task > 1

DropOps == {"no_coords", "no_thumb", "download_fail"}

\* C9. Per-candidate failure isolation: a candidate without coordinates,
\* without a thumbnail URL or with a failed byte transfer is dropped without a
\* record and the loop goes on with the next candidate; the row is marked
\* downloaded when its candidates are exhausted, whatever was recorded; a
\* complete run persists the mark, and a row persisted as downloaded is not
\* listed.
C9_CandidateIsolation ==
  [][/\ ev'.op \in DropOps
          => /\ new_rows' = new_rows /\ meta_df' = meta_df
             /\ existing_ids' = existing_ids /\ total_new' = total_new
             /\ ev'.id \notin IdsOf(meta_df' \o new_rows')
             /\ pc' = "cand" /\ k' = k + 1 /\ images' = images /\ idx' = idx
     /\ ev'.op = "task_end"
          => /\ k > Len(images)
             /\ IsDownloaded(bbox_df'[ev'.task])
             /\ pc' = "loop" /\ idx' = idx + 1
     /\ last'.kind = "done"
          => \A t \in last'.done : PersistedDone(queueFile'[t])
     /\ ev'.op \in ListOps => ~PersistedDone(queueFile'[ev'.task])]_vars

\* A row all of whose candidates were dropped is marked downloaded with no
\* record created.
C9_Witness ==
  /\ ev.op = "task_end"
  /\ ev.task \in cur.dropped
  /\ total_new = 0
  /\ meta_df = << >>
  /\ IsDownloaded(bbox_df[ev.task])

IdCalls == {"thumb", "bytes"}

\* C10. No network call for catalogued ids: during the loop the id set holds
\* the ids of the loaded catalog and of the records created in the run; a
\* thumbnail-URL call or byte-fetch is issued only for an id outside the set,
\* and the step for a candidate whose id is in the set issues no call.
C10_NoCallForKnownId ==
  [][/\ ev'.calls \cap IdCalls # {} => ev'.id \notin existing_ids
     /\ (InCand /\ CandId(images[k]) \in existing_ids /\ pc' # "idle")
          => ev'.calls = {} /\ ev'.op = "known"
     /\ pc' \in {"loop", "cand"}
          => existing_ids' = IdsOf(metaFile') \cup IdsOf(meta_df' \o new_rows')]_vars

\* A candidate whose id the loaded catalog holds is dropped without a call.
C10_Witness ==
  /\ ev.op = "known"
  /\ ev.calls = {}
  /\ ev.id \in IdsOf(metaFile)
  /\ ev.id \notin IdsOf(new_rows)

\* a reply that the policy answers with another attempt while budget is left
Retried(reply) ==
  \/ reply.kind \in {"connect", "read"}
  \/ reply.kind = "status" /\ reply.status \in StatusForcelist

\* C11 as stated: a GET is attempted at most 5 times in total, and only a
\* failure or a status of the forcelist is followed by another attempt.
C11_FiveAttempts ==
  /\ http.attempts <= 5
  /\ (http.phase = "sending" /\ http.attempts > 0) => Retried(http.reply)

\* C11, amended. A GET is attempted at most 6 times in total (the first
\* attempt and 5 retries): a request that keeps meeting failures or statuses
\* of the forcelist surfaces at its 6th attempt, not before; a response with
\* another status surfaces at once, except 413 with a Retry-After header,
\* which is retried like a status of the forcelist.
C11_RetryBound ==
  /\ http.attempts <= RetryTotal + 1
  /\ http.surfaced \in {"exhausted_status", "exhausted_error"}
       => http.attempts = RetryTotal + 1 /\ Retried(http.reply)
  /\ (http.phase = "sending" /\ http.attempts > 0)
       => \/ Retried(http.reply)
          \/ http.reply = Response(413, TRUE)
  /\ http.surfaced = "response"
       => /\ http.reply.kind = "status"
          /\ http.reply.status \notin StatusForcelist

\* Six attempts met 503 and the last response is what the caller gets.
C11_Witness ==
  /\ http.phase = "done"
  /\ http.surfaced = "exhausted_status"
  /\ http.reply.status = 503
  /\ http.attempts = 6

\* bounds that float() accepts and that are not a box: min is not below max
Inverted(row) ==
  LET b == RowBounds(row)
  IN  b.ok /\ ~(b.box[1] < b.box[3] /\ b.box[2] < b.box[4])

\* C12. Bounds that parse as numbers and violate minLon < maxLon or
\* minLat < maxLat are a validation error: no listing call is issued for the
\* row, its flag is not flipped, and the run goes on to the rows after it.
C12_InvertedRejected ==
  pc # "idle"
    => \A t \in 1..Len(bbox_df) :
         Inverted(bbox_df[t]) => t \notin cur.listed /\ t \notin cur.done

\* C13. When the token is missing or the queue file is missing, the run ends
\* at once: it issues no network call and writes neither the queue file, nor
\* the catalog file, nor any image file.
C13_ConfigErrorInert ==
  [][(pc = "idle" /\ runs' # runs /\ (token = << >> \/ ~queueExists))
       => /\ pc' = "idle"
          /\ ev'.op = "config_error" /\ ev'.calls = {}
          /\ disk' = disk
          /\ last'.kind = "config"]_vars

\* A run without a token found a queue with a pending row and left it.
C13_Witness ==
  /\ ev.op = "config_error"
  /\ token = << >>
  /\ queueExists
  /\ \E t \in 1..Len(queueFile) : ~PersistedDone(queueFile[t])

\* a row with a bound that is not a number
Unparseable(row) ==
  \E b \in {row.min_lon, row.min_lat, row.max_lon, row.max_lat} : ~ParseNum(b).ok

\* C14. A row with a bound that does not parse is skipped: no listing call
\* is issued for it, its flag and its cells stay as they were, the loop goes
\* on with the next row, and the row is in the queue file the run saves.
C14_UnparseableSkipped ==
  [][/\ ev'.op = "skip_invalid"
          => /\ ev'.calls = {} /\ bbox_df' = bbox_df /\ disk' = disk
             /\ pc' = "loop" /\ idx' = idx + 1
     /\ pc' # "idle"
          => \A t \in 1..Len(bbox_df') :
               Unparseable(bbox_df'[t])
                 => /\ t \notin cur'.listed
                    /\ bbox_df'[t] = StripRow(queueFile[t])
     /\ (pc = "loop" /\ pc' = "savem")
          => \A t \in 1..Len(queueFile) :
               Unparseable(StripRow(queueFile[t]))
                 => /\ t <= Len(queueFile')
                    /\ queueFile'[t] = StripRow(queueFile[t])]_vars

\* The queue was saved by a run that skipped a pending row for its bounds
\* and processed a row after it.
C14_Witness ==
  /\ pc = "savem"
  /\ \E t, u \in 1..Len(bbox_df) :
       /\ t < u
       /\ Unparseable(bbox_df[t]) /\ ~IsDownloaded(bbox_df[t])
       /\ queueFile[t] = bbox_df[t]
       /\ u \in cur.done

\* The persisted catalog is ahead of the persisted queue: it holds a record
\* made for a row whose persisted flag is not "yes".
CatalogAhead ==
  \E i \in 1..Len(metaFile), t \in 1..Len(queueFile) :
    /\ metaFile[i].location_name = StripRow(queueFile[t]).location_name
    /\ ~PersistedDone(queueFile[t])

\* The process is terminated and leaves the catalog ahead of the queue.
LeavesCatalogAhead == Crash /\ CatalogAhead'

\* The process is terminated and leaves the queue ahead of the catalog: a
\* row this run completed is persisted as downloaded and a record the run
\* made for it is not in the persisted catalog.
LeavesQueueAhead ==
  /\ Crash
  /\ \E t \in cur.done :
       /\ PersistedDone(queueFile'[t])
       /\ \E i \in (Len(metaFile) + 1)..Len(meta_df) :
            /\ meta_df[i].location_name = bbox_df[t].location_name
            /\ \A j \in 1..Len(metaFile') : metaFile'[j].id # meta_df[i].id

\* C15 as stated: between the two saves of a run that made records, a
\* termination can leave the catalog ahead of the queue, and it can leave
\* the queue ahead of the catalog.
C15_CrashEitherAhead ==
  (pc = "savem" /\ total_new > 0)
    => ENABLED LeavesCatalogAhead /\ ENABLED LeavesQueueAhead

\* C15, amended. Between the two saves of a run that made records, a
\* termination leaves the queue ahead of the catalog; no termination leaves
\* the catalog ahead of the queue, and the catalog is never ahead: the queue
\* is saved first, with the flag of every row the new records were made for.
C15_CrashQueueAhead ==
  /\ (pc = "savem" /\ total_new > 0) => ENABLED LeavesQueueAhead
  /\ ~ENABLED LeavesCatalogAhead
  /\ ~CatalogAhead

\* A run was terminated between the two saves: a row it completed is
\* persisted as downloaded, the records it made are lost.
C15_Witness ==
  /\ pc = "idle"
  /\ last.kind = "crash" /\ last.pc = "savem" /\ last.added > 0
  /\ \E t \in last.done :
       /\ PersistedDone(queueFile[t])
       /\ \A j \in 1..Len(metaFile) :
            metaFile[j].location_name # StripRow(queueFile[t]).location_name

\* C16. A run that passed the configuration checks and reached the end of
\* the loop rewrites the queue file, whether or not a row succeeded or a
\* record was made; the file it writes holds the rows it loaded, all of them
\* and in their order, changed only in the flags this run set to "yes".
C16_QueueRewritten ==
  [][/\ (pc = "loop" /\ idx > Len(bbox_df))
          => pc' = "savem" \/ ev'.op = "crash"
     /\ pc' = "savem"
          => /\ pc = "loop" /\ ev'.op = "save_queue"
             /\ Len(queueFile') = Len(queueFile)
             /\ \A t \in 1..Len(queueFile) :
                  queueFile'[t] =
                    [LoadQueue(queueFile)[t] EXCEPT
                       !.downloaded = IF t \in cur.done THEN YES ELSE @]
     /\ queueFile' # queueFile => pc' = "savem"
     /\ (pc # "idle" /\ pc' = "idle" /\ ev'.op # "crash") => pc = "savem"]_vars

\* A run in which no row was completed and no record made has rewritten the
\* queue, rows already downloaded and rows skipped included.
C16_Witness ==
  /\ pc = "savem"
  /\ total_new = 0
  /\ cur.done = {}
  /\ cur.listFail # {}
  /\ Len(queueFile) = 3
  /\ queueFile = bbox_df

\* C17. The catalog is append-only: the catalog a run writes holds the
\* records the run loaded, unchanged and in their order, followed by the
\* records the run made; a run that made no record does not write the file.
C17_AppendOnly ==
  [][/\ metaFile' # metaFile
          => /\ pc = "savem" /\ total_new > 0 /\ ev'.op = "save_meta"
             /\ Len(metaFile') = Len(metaFile) + total_new
             /\ SubSeq(metaFile', 1, Len(metaFile)) = metaFile
             /\ \A i \in (Len(metaFile) + 1)..Len(metaFile') :
                  /\ metaFile'[i] = CsvRecord(meta_df[i])
                  /\ meta_df[i].longitude.t = "float"
     /\ (pc = "savem" /\ pc' = "idle" /\ total_new = 0)
          => metaFile' = metaFile /\ ~last'.metaWritten
     /\ (pc = "savem" /\ total_new > 0 /\ ev'.op # "crash")
          => metaFile' # metaFile /\ last'.metaWritten]_vars

\* A run has written the catalog: the records of an earlier run and, after
\* them, its own.
C17_Witness ==
  /\ pc = "idle"
  /\ ev.op = "save_meta"
  /\ last.added > 0
  /\ Len(metaFile) > last.added

\* C18. A candidate that is not in the id set, has coordinates and gets a
\* thumbnail URL, and whose final file is there already: no bytes are
\* requested, the files stay as they are, a record of the candidate is
\* appended and its id is added to the id set.
C18_ExistingFileRecorded ==
  [][(/\ pc = "cand" /\ k <= Len(images)
      /\ CandId(images[k]) \notin existing_ids
      /\ safe_coords(images[k]).ok
      /\ ImgPath(CandId(images[k])) \in fs
      /\ k' = k + 1
      /\ ev'.op # "no_thumb")
       => /\ ev'.calls = {"thumb"}
          /\ fs' = fs /\ streamed' = streamed
          /\ Len(new_rows') = Len(new_rows) + 1
          /\ SubSeq(new_rows', 1, Len(new_rows)) = new_rows
          /\ new_rows'[Len(new_rows')].id = CandId(images[k])
          /\ new_rows'[Len(new_rows')].file_path = ImgPath(CandId(images[k]))
          /\ existing_ids' = existing_ids \cup {CandId(images[k])}]_vars

\* The file was left by a run that was terminated before it saved the
\* catalog; this run has recorded the candidate without a download.
C18_Witness ==
  /\ ev.op = "have_file"
  /\ last.kind = "crash"
  /\ ev.id \in existing_ids
  /\ ev.id \notin cur.tried
  /\ ImgPath(ev.id) \in streamed
  /\ \A i \in 1..Len(metaFile) : metaFile[i].id # ev.id

\* C19. Single save point: the two ledgers are written only after the loop,
\* the queue first and the catalog second; while a run is in the loop, and
\* when it is terminated there, both files are what they were when the run
\* started, and the image files written so far stay on disk.
C19_SingleSavePoint ==
  [][/\ queueFile' # queueFile
          => /\ pc = "loop" /\ idx > Len(bbox_df) /\ pc' = "savem"
             /\ metaFile' = metaFile
     /\ metaFile' # metaFile
          => pc = "savem" /\ pc' = "idle" /\ queueFile' = queueFile
     /\ pc' \in {"loop", "cand"}
          => /\ queueFile' = queueFile /\ metaFile' = metaFile
             /\ last'.kind # "none" => queueFile' = last'.queue
     /\ (ev'.op = "crash" /\ pc \in {"loop", "cand"})
          => queueFile' = queueFile /\ metaFile' = metaFile /\ fs' = fs
     /\ \A p \in fs : p.ext = ".jpg" => p \in fs']_vars

\* A run was terminated in the loop after it had completed a row and written
\* an image: the image is on disk, the row is not persisted as downloaded
\* and the catalog file holds no record.
C19_Witness ==
  /\ pc = "idle"
  /\ last.kind = "crash" /\ last.pc \in {"loop", "cand"}
  /\ \E t \in last.done : ~PersistedDone(queueFile[t])
  /\ \E p \in fs : p.ext = ".jpg" /\ p \in streamed
  /\ metaFile = << >>

Rows == UNION {DOMAIN q : q \in QueueFiles}

\* the row is in the queue with bounds that are a box, and is still to do
ValidPending(t) ==
  /\ t \in DOMAIN queueFile
  /\ WellOrdered(queueFile[t])
  /\ ~PersistedDone(queueFile[t])

\* every row with valid bounds is persisted as downloaded
AllValidDone ==
  \A t \in DOMAIN queueFile : WellOrdered(queueFile[t]) => PersistedDone(queueFile[t])

\* the step taken last was no network call, made no record and did not
\* write the catalog
Quiet ==
  /\ ev.calls = {}
  /\ ev.op \notin {"have_file", "download_ok", "save_meta"}

\* C20. Convergence: when the script is run again and again without being
\* terminated, and the listing call of every row with valid bounds returns
\* in some run, then from some point on every row with valid bounds is
\* persisted as downloaded and no run issues a network call, makes a record
\* or writes the catalog.
C20_Convergence ==
  (\A t \in Rows : ValidPending(t) => <>(ev.op = "list_ok" /\ ev.task = t))
    => <>[](AllValidDone /\ Quiet)

====
